---- MODULE Spec2Model ----
(***************************************************************************)
(* Model of shingo-core/scripts/feishu-wiki-scraper.py: the crawl driver   *)
(* main(), the page extractor extract_page_content(), the stabilization    *)
(* loop wait_for_content(), the tree expander expand_sidebar_tree(), the   *)
(* link discoverer discover_wiki_links() and slugify().                    *)
(*                                                                         *)
(* A URL is a sequence of tokens: the scheme "https://", a host, then "/", *)
(* path segments, "?" and "#".  A text (title, anchor text) is a sequence  *)
(* of runs [ch, n]: the character ch repeated n times, so that the length  *)
(* thresholds of the code (200, 120) keep their values.                    *)
(***************************************************************************)
EXTENDS Integers, Sequences, FiniteSets, TLC

VARIABLES
    args,          \* parsed command line: [url, no_crawl, debug]
    pc,            \* position of main() / extract_page_content()
    i,             \* loop index of main(): 0 while on the start page
    url,           \* page.url of the single page handle
    dom,           \* anchors of the page at the time links are discovered
    found,         \* links as returned by discover_wiki_links (line 291)
    links,         \* links after the self-exclusion filter (line 294)
    files,         \* the output directory: set of files written
    errors,        \* indices for which "ERROR: ..." was printed (line 310)
    attempted,     \* sequence of link indices whose visit was started
    passes,        \* expand_sidebar_tree: the passes run, 0 once the links are read
    toggles,       \* the toggle elements of the sidebar while the tree is expanded
    clicks,        \* per pass of expand_sidebar_tree, the elements clicked, in order
    ndiscover,     \* how many times discover_wiki_links ran
    prev_len,      \* wait_for_content: prev_len (0 outside the call)
    stable_count,  \* wait_for_content: stable_count (0 outside the call)
    elapsed,       \* wait_for_content: polls of time since the deadline was set
    observed,      \* the lengths the last polls of the current call read, oldest first
    docTitle,      \* page.title() of the page being extracted
    cands,         \* heading candidates of the page being extracted
    title,         \* extract_page_content: title
    tree,          \* elements of the page at the content evaluation
    content_html,  \* extract_page_content: content_html
    markdown,      \* extract_page_content: markdown as md() returned it
    content,       \* extract_page_content: markdown as returned
    xthrown,       \* evaluation calls that threw during the current extract call
    xres,          \* how the last extract call ended: "none", "running", "returned", "raised"
    waitRes,       \* how the last wait_for_content call ended
    debugFiles,    \* files written by debug_dump
    fatal          \* site of the uncaught exception that ended the run, or "none"

vars == <<args, pc, i, url, dom, found, links, files, errors, attempted, passes,
          toggles, clicks,
          ndiscover, prev_len, stable_count, elapsed, observed, docTitle, cands, title,
          tree, content_html, markdown, content, xthrown, xres, waitRes,
          debugFiles, fatal>>

(***************************************************************************)
(* Bounds of the model and constants of the program.                       *)
(***************************************************************************)
MaxLinks == 3          \* anchors on the start page in a crawl run
MaxAnchors == 3        \* anchors of a page given to the link discoverer alone
MaxToggles == 3        \* toggle elements of a sidebar given to the tree expander alone
MaxSlugRuns == 3       \* runs of one character in a title given to slugify alone
MaxNodes == 3          \* elements below the body of a page given to the locator alone
MaxMdRuns == 3         \* runs of one character in a text given to the collapsing alone

PollTimeout == 20      \* wait_for_content(page, timeout=20), seconds
PollsPerSecond == 2    \* time.sleep(0.5)
MinStableLen == 100    \* cur_len > 100
StableNeeded == 3      \* stable_count >= 3
MaxTextLen == 200      \* text.length < 200
MaxSlugLen == 120      \* text[:120]
MinKnownText == 50     \* el.innerText.trim().length > 50
MaxToggleSize == 50    \* rect.width < 50, rect.height < 50
MaxToggleLeft == 400   \* rect.left < 400
MaxPasses == 15        \* range(15)

Deadline == PollTimeout * PollsPerSecond

(***************************************************************************)
(* Sequences of tokens (URLs).                                             *)
(***************************************************************************)
\* Python "t in s", JavaScript s.includes(t)
Contains(s, t) ==
    \E k \in 0..(Len(s) - Len(t)) : SubSeq(s, k + 1, k + Len(t)) = t

\* index of the first token of s that is in set, Len(s) + 1 when there is none
FirstIn(s, set) ==
    IF \E k \in 1..Len(s) : s[k] \in set
    THEN CHOOSE k \in 1..Len(s) :
            /\ s[k] \in set
            /\ \A j \in 1..(k - 1) : s[j] \notin set
    ELSE Len(s) + 1

\* index of the last token of s that is in set, 0 when there is none
LastIn(s, set) ==
    IF \E k \in 1..Len(s) : s[k] \in set
    THEN CHOOSE k \in 1..Len(s) :
            /\ s[k] \in set
            /\ \A j \in (k + 1)..Len(s) : s[j] \notin set
    ELSE 0

WikiMarker == <<"/", "wiki", "/">>

\* new URL(href).origin: scheme and host
Origin(u) == SubSeq(u, 1, 2)

\* new URL(href).host, urlparse(url).netloc
Host(u) == IF Len(u) >= 2 THEN u[2] ELSE ""

\* new URL(href).pathname: from the first "/" up to the query or fragment
Pathname(u) ==
    LET rest == SubSeq(u, 3, Len(u))
        p == SubSeq(rest, 1, FirstIn(rest, {"?", "#"}) - 1)
    IN  IF p = <<>> THEN <<"/">> ELSE p

\* a faulty variant of CleanUrl that keeps the query string
CleanUrlKeepQuery(u) ==
    LET rest == SubSeq(u, 3, Len(u))
    IN  Origin(u) \o SubSeq(rest, 1, FirstIn(rest, {"#"}) - 1)

\* url.origin + url.pathname
CleanUrl(u) == Origin(u) \o Pathname(u)

\* s.rstrip('/')
RECURSIVE RStripSlash(_)
RStripSlash(s) ==
    IF s # <<>> /\ s[Len(s)] = "/" THEN RStripSlash(SubSeq(s, 1, Len(s) - 1)) ELSE s

\* args.url.rstrip('/').split('/')[-1]; the scheme token ends in a slash
StartId(u) ==
    LET s == RStripSlash(u)
    IN  SubSeq(s, LastIn(s, {"/", "https://"}) + 1, Len(s))

(***************************************************************************)
(* Texts as runs of characters.                                            *)
(***************************************************************************)
Run(c, n) == [ch |-> c, n |-> n]

RECURSIVE TextLen(_)
TextLen(t) == IF t = <<>> THEN 0 ELSE Head(t).n + TextLen(Tail(t))

IsSpace(c) == c \in {" ", "\n"}
\* \w of a Python 3 str pattern: Unicode letters, digits and underscore
IsWord(c) == c \in {"a", "b", "D", "H", "x", "y", "7", "_", "e_acute", "zh",
                    "u", "n", "t", "i", "l", "e", "d"}

RECURSIVE LStrip(_)
LStrip(t) ==
    IF t # <<>> /\ IsSpace(Head(t).ch) THEN LStrip(Tail(t)) ELSE t

RECURSIVE RStrip(_)
RStrip(t) ==
    IF t # <<>> /\ IsSpace(t[Len(t)].ch) THEN RStrip(SubSeq(t, 1, Len(t) - 1)) ELSE t

\* str.strip(), String.prototype.trim()
Trim(t) == RStrip(LStrip(t))

\* adjacent runs of one character are one run
RECURSIVE Merge(_)
Merge(t) ==
    IF Len(t) < 2 THEN t
    ELSE IF t[1].ch = t[2].ch
         THEN Merge(<<Run(t[1].ch, t[1].n + t[2].n)>> \o SubSeq(t, 3, Len(t)))
         ELSE <<t[1]>> \o Merge(Tail(t))

\* text[:k]
RECURSIVE Truncate(_, _)
Truncate(t, k) ==
    IF t = <<>> \/ k <= 0 THEN <<>>
    ELSE IF Head(t).n >= k THEN <<Run(Head(t).ch, k)>>
         ELSE <<Head(t)>> \o Truncate(Tail(t), k - Head(t).n)

KeepInSlug(r) == IsWord(r.ch) \/ IsSpace(r.ch) \/ r.ch = "-"

\* re.sub(r'[\s]+', '-', text): each maximal stretch of whitespace is one hyphen
RECURSIVE Hyphenate(_)
Hyphenate(t) ==
    IF t = <<>> THEN <<>>
    ELSE IF IsSpace(Head(t).ch)
         THEN <<Run("-", 1)>> \o Hyphenate(LStrip(t))
         ELSE <<Head(t)>> \o Hyphenate(Tail(t))

Untitled == <<Run("u", 1), Run("n", 1), Run("t", 1), Run("i", 1),
              Run("t", 1), Run("l", 1), Run("e", 1), Run("d", 1)>>

\* a faulty variant of slugify: the result is not cut to 120 characters
slugifyUncut(t) ==
    LET kept == SelectSeq(Trim(t), KeepInSlug)
        whole == Merge(Hyphenate(kept))
    IN  IF whole = <<>> THEN Untitled ELSE whole

\* slugify(text)
slugify(t) ==
    LET kept == SelectSeq(Trim(t), KeepInSlug)
        cut == Truncate(Merge(Hyphenate(kept)), MaxSlugLen)
    IN  IF cut = <<>> THEN Untitled ELSE cut

(***************************************************************************)
(* discover_wiki_links: the page.evaluate callback over the anchors.       *)
(***************************************************************************)
\* url.host === baseHost && text.length > 0 && text.length < 200
AnchorPasses(a, baseHost) ==
    /\ Host(a.href) = baseHost
    /\ TextLen(Trim(a.text)) > 0
    /\ TextLen(Trim(a.text)) < MaxTextLen

\* a faulty variant of VisitAnchor: a repeated URL replaces the title of its record
VisitAnchorLastTitle(st, a, baseHost) ==
    IF a.href # <<>> /\ Contains(a.href, WikiMarker) /\ AnchorPasses(a, baseHost)
    THEN LET clean == CleanUrl(a.href)
             rec == [url |-> clean, title |-> Trim(a.text)]
         IN  IF clean \in st.seen
             THEN [results |-> [k \in DOMAIN st.results |->
                                   IF st.results[k].url = clean THEN rec
                                   ELSE st.results[k]],
                   seen |-> st.seen]
             ELSE [results |-> Append(st.results, rec), seen |-> st.seen \cup {clean}]
    ELSE st

\* the forEach callback (lines 178-194) on one anchor, st = [results, seen]
VisitAnchor(st, a, baseHost) ==
    IF a.href # <<>> /\ Contains(a.href, WikiMarker) /\ a.href \notin st.seen
    THEN IF AnchorPasses(a, baseHost)
         THEN LET clean == CleanUrl(a.href)
              IN  IF clean \notin st.seen
                  THEN [results |-> Append(st.results,
                                           [url |-> clean, title |-> Trim(a.text)]),
                        seen |-> st.seen \cup {clean}]
                  ELSE st
         ELSE st
    ELSE st

RECURSIVE ScanAnchors(_, _, _)
ScanAnchors(d, st, baseHost) ==
    IF d = <<>> THEN st
    ELSE ScanAnchors(Tail(d), VisitAnchor(st, Head(d), baseHost), baseHost)

\* discover_wiki_links(page, base_url)
discover_wiki_links(d, base_url) ==
    ScanAnchors(d, [results |-> <<>>, seen |-> {}], Host(base_url)).results

\* [l for l in links if start_id not in l['url']]
SelfExcluded(ls, start) ==
    LET keep(l) == ~Contains(l.url, StartId(start))
    IN  SelectSeq(ls, keep)

(***************************************************************************)
(* extract_page_content: title resolution and blank-line collapsing.       *)
(***************************************************************************)
NoEl == [el |-> FALSE, text |-> <<>>]
El(t) == [el |-> TRUE, text |-> t]

\* el && el.innerText.trim().length > 0 && el.innerText.trim().length < 200
HeadingOk(c) ==
    /\ c.el
    /\ TextLen(Trim(c.text)) > 0
    /\ TextLen(Trim(c.text)) < MaxTextLen

\* the heading evaluation (lines 87-97): first candidate that qualifies, else ''
ResolveHeading(c) ==
    IF \E k \in 1..Len(c) : HeadingOk(c[k])
    THEN Trim(c[FirstIn([k \in 1..Len(c) |-> IF HeadingOk(c[k]) THEN "ok" ELSE "no"],
                        {"ok"})].text)
    ELSE <<>>

\* a faulty variant of Collapse: re.sub(r'\n\n\n', '\n\n', markdown)
CollapseTriples(t) ==
    LET m == Merge(t)
    IN  [k \in 1..Len(m) |->
            IF m[k].ch = "\n" THEN Run("\n", 2 * (m[k].n \div 3) + (m[k].n % 3)) ELSE m[k]]

\* re.sub(r'\n{3,}', '\n\n', markdown)
Collapse(t) ==
    LET m == Merge(t)
    IN  [k \in 1..Len(m) |->
            IF m[k].ch = "\n" /\ m[k].n >= 3 THEN Run("\n", 2) ELSE m[k]]

(***************************************************************************)
(* extract_page_content: the content locator (lines 105-164).  A page is   *)
(* the sequence of its elements in document order, the body first; an      *)
(* element has a tag, a class attribute, a role, the data attributes it    *)
(* carries, the length of the text directly in it and the index of its     *)
(* parent.  A class attribute is a set of pieces [w, upper]: the word w    *)
(* occurs in the attribute, written in lower case or not.                  *)
(***************************************************************************)
Body == [tag |-> "body", cls |-> {}, role |-> "", attrs |-> {}, text |-> 0, parent |-> 0]
Lower(w) == [w |-> w, upper |-> FALSE]
Upper(w) == [w |-> w, upper |-> TRUE]

\* [class*="w"]: the attribute contains w, letter case included
ClassHas(cls, w) == Lower(w) \in cls
\* /w/i.test(cls)
ClassHasI(cls, w) == \E c \in cls : c.w = w

RECURSIVE Ancestors(_, _)
Ancestors(t, k) ==
    IF t[k].parent = 0 THEN {} ELSE {t[k].parent} \cup Ancestors(t, t[k].parent)

Descendants(t, k) == {j \in 1..Len(t) : k \in Ancestors(t, j)}
\* el.children
Children(t, k) == {j \in 1..Len(t) : t[j].parent = k}

\* text of script, style and noscript elements is not rendered
RenderedText(n) == IF n.tag \in {"script", "style", "noscript"} THEN 0 ELSE n.text

RECURSIVE SumText(_, _, _)
SumText(t, k, j) ==
    IF j > Len(t) THEN 0
    ELSE (IF j = k \/ k \in Ancestors(t, j) THEN RenderedText(t[j]) ELSE 0)
         + SumText(t, k, j + 1)

\* el.innerText.length
InnerText(t, k) == SumText(t, k, k)

\* knownSelectors (lines 118-130), in the order they are tried
KnownSelectors ==
    <<[by |-> "attr", v |-> "data-content-editable-root"],
      [by |-> "class", v |-> "docx-content"],
      [by |-> "class", v |-> "doc-content"],
      [by |-> "class", v |-> "wiki-content"],
      [by |-> "class", v |-> "page-content"],
      [by |-> "class", v |-> "render"],
      [by |-> "class", v |-> "editor"],
      [by |-> "tag", v |-> "article"],
      [by |-> "tag", v |-> "main"],
      [by |-> "role", v |-> "main"],
      [by |-> "role", v |-> "article"]>>

\* el.matches(sel)
Matches(n, sel) ==
    CASE sel.by = "attr" -> sel.v \in n.attrs
      [] sel.by = "class" -> ClassHas(n.cls, sel.v)
      [] sel.by = "tag" -> n.tag = sel.v
      [] sel.by = "role" -> n.role = sel.v

\* document.querySelector(sel): the first match in document order, 0 for null
FirstMatch(t, sel) ==
    IF \E k \in 1..Len(t) : Matches(t[k], sel)
    THEN CHOOSE k \in 1..Len(t) :
            /\ Matches(t[k], sel)
            /\ \A j \in 1..(k - 1) : ~Matches(t[j], sel)
    ELSE 0

\* a faulty variant of KnownOk: 50 characters are enough
KnownOkAtLeast(t, el) == el # 0 /\ InnerText(t, el) >= MinKnownText

\* el && el.innerText.trim().length > 50 (line 133)
KnownOk(t, el) == el # 0 /\ InnerText(t, el) > MinKnownText

\* the loop over knownSelectors from selector s on (lines 131-136): the
\* element returned, 0 when the loop ends without one
RECURSIVE KnownPhase(_, _)
KnownPhase(t, s) ==
    IF s > Len(KnownSelectors) THEN 0
    ELSE LET el == FirstMatch(t, KnownSelectors[s])
         IN  IF KnownOk(t, el) THEN el ELSE KnownPhase(t, s + 1)

ExcludeTags == {"nav", "header", "footer", "script", "style", "noscript"}
ExcludeClassPatterns ==
    {"sidebar", "catalog", "nav", "header", "footer", "menu", "toolbar", "topbar"}

\* shouldExclude(el) (lines 111-115)
ShouldExclude(n) ==
    \/ n.tag \in ExcludeTags
    \/ \E w \in ExcludeClassPatterns : ClassHasI(n.cls, w)

\* walk(document.body) (lines 141-154) from element k on, in document order;
\* an element below an excluded one is not visited
RECURSIVE Walk(_, _, _, _)
Walk(t, k, best, bestScore) ==
    IF k > Len(t) THEN best
    ELSE IF /\ \A a \in Ancestors(t, k) \cup {k} : ~ShouldExclude(t[a])
            /\ InnerText(t, k) > bestScore
            /\ k # 1
            /\ Children(t, k) # {}
         THEN Walk(t, k + 1, k, InnerText(t, k))
         ELSE Walk(t, k + 1, best, bestScore)

\* the selector list of clone.querySelectorAll (line 159)
StripTags == {"nav", "header", "footer"}
StripClasses == {"sidebar", "catalog", "menu", "toolbar"}
StripMatches(n) ==
    \/ n.tag \in StripTags
    \/ \E w \in StripClasses : ClassHas(n.cls, w)

\* the descendants of k that e.remove() takes out of the clone (lines 158-160)
Stripped(t, k) ==
    {j \in Descendants(t, k) :
        \E a \in (Ancestors(t, j) \cup {j}) \cap Descendants(t, k) : StripMatches(t[a])}

\* a fragment of HTML: the inner HTML of element el without the elements
\* removed from it; nodes are the elements it contains
NoHtml == [phase |-> "none", el |-> 0, nodes |-> {}]
InnerHtml(t, phase, k, removed) ==
    [phase |-> phase, el |-> k, nodes |-> Descendants(t, k) \ removed]

\* the callback of page.evaluate (lines 105-164)
Locate(t) ==
    LET known == KnownPhase(t, 1)
        best == Walk(t, 1, 0, 0)
    IN  IF known # 0 THEN InnerHtml(t, "known", known, {})
        ELSE IF best # 0 THEN InnerHtml(t, "best", best, Stripped(t, best))
        ELSE InnerHtml(t, "body", 1, {})

(***************************************************************************)
(* expand_sidebar_tree: the page.evaluate callback (lines 203-229).  The   *)
(* sidebar is the sequence of its toggle elements in document order; a     *)
(* toggle has the class words it always carries, those it carries while    *)
(* collapsed, whether it has an aria-expanded attribute, its rectangle,    *)
(* the toggle it is nested in (0 at the top) and whether it is expanded.   *)
(* A toggle is in the document while every toggle it is nested in is       *)
(* expanded; a click is handled at once and expands a collapsed toggle and *)
(* collapses an expanded one.                                              *)
(***************************************************************************)
\* toggleSelectors (lines 206-213)
ToggleSelectors ==
    <<[by |-> "class", v |-> "expand"],
      [by |-> "class", v |-> "arrow"],
      [by |-> "class", v |-> "toggle"],
      [by |-> "class", v |-> "collapsed"],
      [by |-> "class", v |-> "fold"],
      [by |-> "aria", v |-> "false"]>>

RECURSIVE NestedIn(_, _)
NestedIn(ts, k) ==
    IF ts[k].parent = 0 THEN {} ELSE {ts[k].parent} \cup NestedIn(ts, ts[k].parent)

InDocument(ts, k) == \A a \in NestedIn(ts, k) : ts[a].expanded

\* el.matches(sel) for a toggle selector
MatchesToggle(tg, sel) ==
    CASE sel.by = "class" -> sel.v \in tg.cls \/ (~tg.expanded /\ sel.v \in tg.clsCollapsed)
      [] sel.by = "aria" -> tg.aria /\ ~tg.expanded

\* document.querySelectorAll(sel): the matches in document order
QuerySelectorAll(ts, sel) ==
    LET hit(k) == InDocument(ts, k) /\ MatchesToggle(ts[k], sel)
    IN  SelectSeq([k \in 1..Len(ts) |-> k], hit)

\* the size and position filter (lines 219-221); the rectangle of an element
\* that is no longer in the document is empty
RectOk(ts, k) ==
    /\ InDocument(ts, k)
    /\ ts[k].rect.width > 0 /\ ts[k].rect.width < MaxToggleSize
    /\ ts[k].rect.height > 0 /\ ts[k].rect.height < MaxToggleSize
    /\ ts[k].rect.left < MaxToggleLeft

\* el.click()
Click(ts, k) == [ts EXCEPT ![k].expanded = ~@]

\* the forEach of lines 215-227 over the elements els; log is the elements
\* clicked so far in this pass, one entry per clicked++
RECURSIVE ForEach(_, _, _)
ForEach(ts, els, log) ==
    IF els = <<>> THEN [toggles |-> ts, log |-> log]
    ELSE IF RectOk(ts, Head(els))
         THEN ForEach(Click(ts, Head(els)), Tail(els), Append(log, Head(els)))
         ELSE ForEach(ts, Tail(els), log)

\* the loop over toggleSelectors from selector s on (lines 214-228)
RECURSIVE RunPass(_, _, _)
RunPass(ts, s, log) ==
    IF s > Len(ToggleSelectors) THEN [toggles |-> ts, log |-> log]
    ELSE LET r == ForEach(ts, QuerySelectorAll(ts, ToggleSelectors[s]), log)
         IN  RunPass(r.toggles, s + 1, r.log)

(***************************************************************************)
(* What the pages of a run may show.                                       *)
(***************************************************************************)
Https == "https://"
WikiUrl(host, id) == <<Https, host, "/", "wiki", "/">> \o id
\* the login page; the page to return to is percent-encoded in its query
LoginUrl == <<Https, "accounts", "/", "login", "?", "redirect_uri=https%3A%2F%2Fh1%2Fwiki%2Fa">>

\* "accounts" in page.url and "login" in page.url
IsLoginUrl(u) == Contains(u, <<"accounts">>) /\ Contains(u, <<"login">>)
\* the glob "**/wiki/**"
MatchesWiki(u) == Contains(u, WikiMarker)

TextX == <<Run("x", 1)>>
TextY == <<Run(" ", 1), Run("y", 1), Run(" ", 2)>>
TextBlank == <<Run(" ", 2)>>
TextLong == <<Run("x", MaxTextLen)>>

\* the start URLs of a crawl run
CrawlStartUrls == {WikiUrl("h1", <<"a">>), WikiUrl("h1", <<"b">>) \o <<"/">>}

\* the sidebar of the crawled wiki: a link to page a, then pages b, bb, bbb, ...
SidebarAnchor(k) ==
    IF k = 1 THEN [href |-> WikiUrl("h1", <<"a">>) \o <<"?", "q">>, text |-> TextY]
    ELSE [href |-> WikiUrl("h1", [j \in 1..(k - 1) |-> "b"]), text |-> TextX]

CrawlDoms == {[k \in 1..n |-> SidebarAnchor(k)] : n \in 0..(MaxLinks + 1)}

\* anchors and start URLs for the link discoverer on its own
Hrefs == {WikiUrl("h1", <<"a">>),
          WikiUrl("h1", <<"a">>) \o <<"?", "q">>,
          WikiUrl("h1", <<"a", "b">>) \o <<"#", "f">>}
OtherHrefs == {WikiUrl("h2", <<"a">>),
               <<Https, "h1", "/", "doc", "/", "a">>}
Texts == {TextX, TextY, TextBlank, TextLong}
Anchors == [href : Hrefs, text : Texts] \cup [href : OtherHrefs, text : {TextX}]
AllDoms == UNION {[1..n -> Anchors] : n \in 0..MaxAnchors}
LinkStartUrls == {WikiUrl("h1", <<"a">>),
                  WikiUrl("h1", <<"a">>) \o <<"/">>,
                  WikiUrl("h1", <<"a">>) \o <<"?", "q">>}

Lens == {MinStableLen, MinStableLen + 1, MinStableLen + 2}
\* the pages of a crawl run do not change while they are polled
CrawlLens == {MinStableLen + 1}
DocTitles == {<<>>, <<Run("D", 1)>>}
CandLists == {<<NoEl, NoEl, NoEl>>,
              <<El(TextBlank), NoEl, El(<<Run(" ", 1), Run("H", 1)>>)>>,
              <<El(TextLong), El(<<Run("H", 1)>>), NoEl>>}
ConverterOutputs == {<<Run("t", 1), Run("\n", 3), Run("t", 1)>>}

\* elements a page may hold; parent is set when the element is put in a tree
Elem(tag, cls, role, text) ==
    [tag |-> tag, cls |-> cls, role |-> role, attrs |-> {}, text |-> text, parent |-> 0]
Chrome == MinKnownText + 10
PageElements ==
    {Elem("div", {}, "", 0),
     Elem("div", {}, "", Chrome),
     Elem("main", {}, "", MinKnownText + 1),
     Elem("article", {}, "", MinKnownText),
     Elem("article", {}, "", MinKnownText + 1),
     Elem("div", {}, "main", MinKnownText + 1),
     Elem("div", {Lower("render")}, "", MinKnownText + 1),
     Elem("nav", {}, "", Chrome),
     Elem("div", {Lower("topbar")}, "", Chrome),
     Elem("div", {Upper("sidebar")}, "", Chrome)}

\* the elements a next element in document order may be a child of
RightPath(t) == {Len(t)} \cup Ancestors(t, Len(t))

\* the pages of n elements below the body
RECURSIVE TreesOf(_)
TreesOf(n) ==
    IF n = 0 THEN {<<Body>>}
    ELSE UNION {{Append(t, [e EXCEPT !.parent = p]) : e \in PageElements, p \in RightPath(t)} :
                   t \in TreesOf(n - 1)}

AllTrees == UNION {TreesOf(n) : n \in 0..MaxNodes}

\* the pages of a crawl run: an article, and a block that holds a menu only
CrawlTrees ==
    {<<Body, [Elem("article", {}, "", MinKnownText + 1) EXCEPT !.parent = 1]>>,
     <<Body, [Elem("div", {}, "", 0) EXCEPT !.parent = 1],
             [Elem("nav", {}, "", Chrome) EXCEPT !.parent = 2]>>}

\* toggle elements a sidebar may hold, collapsed; parent is set when the
\* toggle is put in a sidebar
Toggle(cls, clsCollapsed, aria, left) ==
    [cls |-> cls, clsCollapsed |-> clsCollapsed, aria |-> aria,
     rect |-> [width |-> 16, height |-> 16, left |-> left],
     parent |-> 0, expanded |-> FALSE]
AriaToggle == Toggle({}, {}, TRUE, 8)
SidebarToggles ==
    {AriaToggle,
     Toggle({}, {"collapsed"}, TRUE, 8),
     Toggle({"arrow"}, {}, FALSE, 8),
     Toggle({"arrow", "toggle"}, {}, FALSE, 8),
     Toggle({}, {}, TRUE, MaxToggleLeft)}

\* the sidebars of n toggles, each at the top or nested in the one before it
RECURSIVE SidebarsOf(_)
SidebarsOf(n) ==
    IF n = 0 THEN {<<>>}
    ELSE UNION {{Append(ts, [tg EXCEPT !.parent = p]) :
                    tg \in SidebarToggles, p \in {0, Len(ts)}} : ts \in SidebarsOf(n - 1)}

AllSidebars == UNION {SidebarsOf(n) : n \in 0..MaxToggles}

\* the sidebar of the crawled wiki: one collapsed node, or none
CrawlSidebars == {<<>>, <<AriaToggle>>}

\* what md() may return for the content locator or the collapsing alone
MdChars == {"t", " ", "\n"}
MdRunLens == {1, 2, 3, 5}
Markdowns == UNION {[1..n -> [ch : MdChars, n : MdRunLens]] : n \in 0..MaxMdRuns}

(***************************************************************************)
(* The crawl driver main() with the extract_page_content call inlined.     *)
(***************************************************************************)
Init ==
    /\ args \in [url : CrawlStartUrls, no_crawl : BOOLEAN, debug : BOOLEAN]
    /\ pc = "Start"
    /\ i = 0
    /\ url = <<>>
    /\ dom = <<>>
    /\ found = <<>>
    /\ links = <<>>
    /\ files = {}
    /\ errors = {}
    /\ attempted = <<>>
    /\ passes = 0
    /\ toggles = <<>>
    /\ clicks = <<>>
    /\ ndiscover = 0
    /\ prev_len = 0
    /\ stable_count = 0
    /\ elapsed = 0
    /\ observed = <<>>
    /\ docTitle = <<>>
    /\ cands = <<>>
    /\ title = <<>>
    /\ tree = <<>>
    /\ content_html = NoHtml
    /\ markdown = <<>>
    /\ content = <<>>
    /\ xthrown = {}
    /\ xres = "none"
    /\ waitRes = "none"
    /\ debugFiles = {}
    /\ fatal = "none"

\* locals of wait_for_content and extract_page_content
pollVars == <<prev_len, stable_count, elapsed, observed>>
pageVars == <<docTitle, cands, title, tree, content_html, markdown, content>>
linkVars == <<dom, found, links, ndiscover>>
\* what expand_sidebar_tree did, kept until the links are read
expandVars == <<passes, toggles, clicks>>

\* where the for loop of line 298 goes after link k
AfterVisit(k, ls) == IF k + 1 <= Len(ls) THEN "Goto" ELSE "Done"

\* an exception nothing catches: the run ends
Crash(site) ==
    /\ pc' = "Crashed"
    /\ fatal' = site

\* a faulty variant of Unwind: the loop has no try/except
UnwindUncaught(site) ==
    /\ Crash(site)
    /\ UNCHANGED <<i, errors>>

\* a faulty variant of Unwind: the except clause leaves the loop
UnwindBreak(site) ==
    IF i = 0
    THEN /\ Crash(site)
         /\ UNCHANGED <<i, errors>>
    ELSE /\ pc' = "Done"
         /\ i' = i + 1
         /\ errors' = errors \cup {i}
         /\ UNCHANGED fatal

\* a faulty variant of Unwind: a failure on the start page is skipped like a link's
UnwindSkipRoot(site) ==
    IF i = 0
    THEN /\ pc' = "ExpandTree"
         /\ UNCHANGED <<i, errors, fatal>>
    ELSE /\ pc' = AfterVisit(i, links)
         /\ i' = i + 1
         /\ errors' = errors \cup {i}
         /\ UNCHANGED fatal

\* where an exception raised under main() goes: out of main() on the start page
\* (line 275 is in no try), to the except clause of lines 309-310 in the loop
Unwind(site) ==
    IF i = 0
    THEN /\ Crash(site)
         /\ UNCHANGED <<i, errors>>
    ELSE /\ pc' = AfterVisit(i, links)
         /\ i' = i + 1
         /\ errors' = errors \cup {i}
         /\ UNCHANGED fatal

\* an evaluation call of extract_page_content throws and nothing in it catches
Propagate(site) ==
    /\ xthrown' = xthrown \cup {site}
    /\ xres' = "raised"
    /\ Unwind(site)

\* page.goto(args.url) and the login check (lines 255-258)
Navigate ==
    /\ pc = "Start"
    /\ \/ /\ Crash("goto")
          /\ UNCHANGED url
       \/ \E u \in {args.url, LoginUrl} :
            /\ url' = u
            /\ pc' = IF IsLoginUrl(u) THEN "LoginWait" ELSE "Ready"
            /\ UNCHANGED fatal
    /\ UNCHANGED <<args, i, linkVars, files, errors, attempted, expandVars, pollVars,
                   pageVars, xthrown, xres, waitRes, debugFiles>>

\* a faulty variant of LoginWait: the timeout of wait_for_url is caught
LoginWaitSwallowed ==
    /\ pc = "LoginWait"
    /\ \/ /\ pc' = "Ready"
          /\ UNCHANGED <<url, fatal>>
       \/ \E u \in {args.url} :
            /\ MatchesWiki(u)
            /\ url' = u
            /\ \/ Crash("login_networkidle")
               \/ pc' = "Ready" /\ UNCHANGED fatal
    /\ UNCHANGED <<args, i, linkVars, files, errors, attempted, expandVars, pollVars,
                   pageVars, xthrown, xres, waitRes, debugFiles>>

\* page.wait_for_url("**/wiki/**"), wait_for_load_state, sleep (lines 261-263)
LoginWait ==
    /\ pc = "LoginWait"
    /\ \/ /\ Crash("wait_for_url")
          /\ UNCHANGED url
       \/ \E u \in {args.url} :
            /\ MatchesWiki(u)
            /\ url' = u
            /\ \/ Crash("login_networkidle")
               \/ pc' = "Ready" /\ UNCHANGED fatal
    /\ UNCHANGED <<args, i, linkVars, files, errors, attempted, expandVars, pollVars,
                   pageVars, xthrown, xres, waitRes, debugFiles>>

\* the --debug branch (lines 265-271)
DebugDump ==
    /\ pc = "Ready"
    /\ args.debug
    /\ \/ Crash("debug_dump") /\ UNCHANGED debugFiles
       \/ /\ debugFiles' = {"debug-screenshot.png", "debug-dom-structure.txt"}
          /\ pc' = "Exit"
          /\ UNCHANGED fatal
    /\ UNCHANGED <<args, i, url, linkVars, files, errors, attempted, expandVars, pollVars,
                   pageVars, xthrown, xres, waitRes>>

\* the call of extract_page_content on the start page (line 275)
ExtractRoot ==
    /\ pc = "Ready"
    /\ ~args.debug
    /\ pc' = "WaitIdle"
    /\ xthrown' = {}
    /\ xres' = "running"
    /\ waitRes' = "running"
    /\ UNCHANGED <<args, i, url, linkVars, files, errors, attempted, expandVars, pollVars,
                   pageVars, debugFiles, fatal>>

\* page.wait_for_load_state("networkidle", timeout=30000) raises TimeoutError
IdleTimeout ==
    /\ waitRes' = "timeout_error"
    /\ Propagate("networkidle")
    /\ UNCHANGED pollVars

\* wait_for_content up to the loop (lines 34-38)
WaitIdle ==
    /\ pc = "WaitIdle"
    /\ \/ IdleTimeout
       \/ /\ pc' = "Poll"
          /\ prev_len' = 0
          /\ stable_count' = 0
          /\ elapsed' = 0
          /\ observed' = <<>>
          /\ UNCHANGED <<i, errors, fatal, xthrown, xres, waitRes>>
    /\ UNCHANGED <<args, url, linkVars, files, attempted, expandVars, pageVars, debugFiles>>

\* a faulty variant of PollStep: stable_count is not reset
PollStepNoReset(prev, count, cur_len) ==
    IF cur_len > MinStableLen /\ cur_len = prev
    THEN [prev |-> cur_len,
          count |-> count + 1,
          return |-> count + 1 >= StableNeeded]
    ELSE [prev |-> cur_len, count |-> count, return |-> FALSE]

\* what one poll does with the length it read (lines 41-48): the new
\* [prev_len, stable_count] and whether the function returns
PollStep(prev, count, cur_len) ==
    IF cur_len > MinStableLen /\ cur_len = prev
    THEN [prev |-> cur_len,
          count |-> count + 1,
          return |-> count + 1 >= StableNeeded]
    ELSE [prev |-> cur_len, count |-> 0, return |-> FALSE]

\* the last StableNeeded + 2 lengths read once cur_len is read
Observe(obs, cur_len) ==
    LET all == Append(obs, cur_len)
    IN  IF Len(all) > StableNeeded + 2 THEN Tail(all) ELSE all

\* one iteration of the while loop (lines 39-48) on a page whose text has
\* one of the lengths lens; slow is the time the evaluation took, in polls
Poll(lens) ==
    /\ pc = "Poll"
    /\ elapsed < Deadline
    /\ \/ /\ waitRes' = "eval_error"
          /\ Propagate("poll")
          /\ prev_len' = 0
          /\ stable_count' = 0
          /\ elapsed' = 0
          /\ observed' = <<>>
       \/ \E cur_len \in lens, slow \in {0, Deadline} :
            LET st == PollStep(prev_len, stable_count, cur_len)
            IN  /\ observed' = Observe(observed, cur_len)
                /\ IF st.return
                   THEN /\ pc' = "Title"
                        /\ waitRes' = "stable"
                        /\ prev_len' = 0
                        /\ stable_count' = 0
                        /\ elapsed' = 0
                   ELSE /\ pc' = "Poll"
                        /\ prev_len' = st.prev
                        /\ stable_count' = st.count
                        /\ elapsed' = IF elapsed + 1 + slow > Deadline THEN Deadline
                                      ELSE elapsed + 1 + slow
                        /\ UNCHANGED waitRes
                /\ UNCHANGED <<i, errors, fatal, xthrown, xres>>
    /\ UNCHANGED <<args, url, linkVars, files, attempted, expandVars, pageVars, debugFiles>>

\* the while condition fails: time.time() >= deadline (line 39)
PollDeadline ==
    /\ pc = "Poll"
    /\ elapsed >= Deadline
    /\ pc' = "Title"
    /\ waitRes' = "deadline"
    /\ prev_len' = 0
    /\ stable_count' = 0
    /\ elapsed' = 0
    /\ UNCHANGED <<args, i, url, linkVars, files, errors, attempted, expandVars, pageVars,
                   observed, xthrown, xres, debugFiles, fatal>>

\* title = page.title() (line 84)
Title ==
    /\ pc = "Title"
    /\ \/ /\ Propagate("title")
          /\ UNCHANGED pageVars
       \/ \E t \in DocTitles :
            /\ docTitle' = t
            /\ title' = t
            /\ cands' = <<>>
            /\ tree' = <<>>
            /\ content_html' = NoHtml
            /\ markdown' = <<>>
            /\ content' = <<>>
            /\ pc' = "Heading"
            /\ UNCHANGED <<i, errors, fatal, xthrown, xres>>
    /\ observed' = <<>>
    /\ UNCHANGED <<args, url, linkVars, files, attempted, expandVars, prev_len, stable_count,
                   elapsed, waitRes, debugFiles>>

\* a faulty variant of HeadingThrows: the heading evaluation is in no try
HeadingThrowsUncaught ==
    /\ Propagate("heading")
    /\ UNCHANGED pageVars

\* the heading evaluation throws: except Exception: pass (lines 100-101)
HeadingThrows ==
    /\ xthrown' = xthrown \cup {"heading"}
    /\ pc' = "Content"
    /\ UNCHANGED <<pageVars, i, errors, fatal, xres>>

\* a faulty variant of PickTitle: the heading is ignored
PickTitleRaw(t, heading) == t

\* if heading: title = heading (lines 98-99)
PickTitle(t, heading) == IF heading # <<>> THEN heading ELSE t

\* the heading evaluation and its try/except (lines 86-101)
Heading ==
    /\ pc = "Heading"
    /\ \/ HeadingThrows
       \/ \E c \in CandLists :
            /\ cands' = c
            /\ title' = PickTitle(title, ResolveHeading(c))
            /\ pc' = "Content"
            /\ UNCHANGED <<docTitle, tree, content_html, markdown, content, i, errors,
                           fatal, xthrown, xres>>
    /\ UNCHANGED <<args, url, linkVars, files, attempted, expandVars, pollVars, waitRes,
                   debugFiles>>

\* the content evaluation, the conversion and the return (lines 105-169) on
\* a page showing one of trees, which md() converts to one of mds
Content(trees, mds) ==
    /\ pc = "Content"
    /\ \/ /\ Propagate("content")
          /\ UNCHANGED pageVars
       \/ \E tr \in trees, m \in mds :
            /\ tree' = tr
            /\ content_html' = Locate(tr)
            /\ markdown' = m
            /\ content' = Collapse(m)
            /\ xres' = "returned"
            /\ pc' = "Persist"
            /\ UNCHANGED <<docTitle, cands, title, i, errors, fatal, xthrown>>
    /\ UNCHANGED <<args, url, linkVars, files, attempted, expandVars, pollVars, waitRes,
                   debugFiles>>

\* a faulty variant of FileIndex: files are numbered by the pages written so far
FileIndexCompact(k) == Cardinality(files)

\* the index in f"{i:02d}-..." (line 306), 0 in "00-..." (line 276)
FileIndex(k) == k

\* Path.write_text: a file of the same name is replaced
WriteFile(fs, f) == {g \in fs : g.name # f.name} \cup {f}

\* filename and write_text (lines 276-283 and 306-308)
Persist ==
    /\ pc = "Persist"
    /\ files' = WriteFile(files,
                   [index |-> FileIndex(i),
                    name |-> <<FileIndex(i), slugify(title)>>,
                    src |-> url,
                    title |-> title,
                    body |-> content])
    /\ docTitle' = <<>>
    /\ cands' = <<>>
    /\ title' = <<>>
    /\ tree' = <<>>
    /\ content_html' = NoHtml
    /\ markdown' = <<>>
    /\ content' = <<>>
    /\ IF i = 0
       THEN /\ pc' = IF args.no_crawl THEN "Exit" ELSE "ExpandTree"
            /\ UNCHANGED i
       ELSE /\ pc' = AfterVisit(i, links)
            /\ i' = i + 1
    /\ UNCHANGED <<args, url, linkVars, errors, attempted, expandVars, pollVars, xthrown,
                   xres, waitRes, debugFiles, fatal>>

\* a faulty variant of LeaveLoop: a pass without a click does not end the loop
LeaveLoopNoBreak(clicked, n) == n >= MaxPasses

\* if clicked == 0: break, and the end of range(15) (lines 202 and 230-231)
LeaveLoop(clicked, n) == clicked = 0 \/ n >= MaxPasses

\* one pass of expand_sidebar_tree (lines 202-234) on a page whose sidebar
\* is one of sidebars when the first pass starts
ExpandPass(sidebars) ==
    /\ pc = "ExpandTree"
    /\ \/ Crash("expand") /\ UNCHANGED expandVars
       \/ \E sb \in (IF passes = 0 THEN sidebars ELSE {toggles}) :
            LET r == RunPass(sb, 1, <<>>)
            IN  /\ toggles' = r.toggles
                /\ clicks' = Append(clicks, r.log)
                /\ passes' = passes + 1
                /\ pc' = IF LeaveLoop(Len(r.log), passes + 1)
                         THEN "DiscoverLinks" ELSE "ExpandTree"
                /\ UNCHANGED fatal
    /\ UNCHANGED <<args, i, url, linkVars, files, errors, attempted, pollVars, pageVars,
                   xthrown, xres, waitRes, debugFiles>>

\* links = discover_wiki_links(page, args.url) (line 291) on a page showing
\* one of the anchor lists of doms
DiscoverLinks(doms) ==
    /\ pc = "DiscoverLinks"
    /\ \/ Crash("discover") /\ UNCHANGED <<dom, found, ndiscover, expandVars>>
       \/ \E d \in doms :
            /\ dom' = d
            /\ found' = discover_wiki_links(d, args.url)
            /\ ndiscover' = ndiscover + 1
            /\ passes' = 0
            /\ toggles' = <<>>
            /\ clicks' = <<>>
            /\ pc' = "FilterSelf"
            /\ UNCHANGED fatal
    /\ UNCHANGED <<args, i, url, links, files, errors, attempted, pollVars,
                   pageVars, xthrown, xres, waitRes, debugFiles>>

\* the self-exclusion and the start of the loop (lines 293-298)
FilterSelf ==
    /\ pc = "FilterSelf"
    /\ links' = SelfExcluded(found, args.url)
    /\ i' = 1
    /\ pc' = AfterVisit(0, links')
    /\ UNCHANGED <<args, url, dom, found, ndiscover, files, errors, attempted, expandVars,
                   pollVars, pageVars, xthrown, xres, waitRes, debugFiles, fatal>>

\* page.goto(url) in the loop (lines 298-304), then the call of line 305
Goto ==
    /\ pc = "Goto"
    /\ attempted' = Append(attempted, i)
    /\ \/ /\ Unwind("goto")
          /\ UNCHANGED <<url, xthrown, xres, waitRes>>
       \/ /\ url' = links[i].url
          /\ pc' = "WaitIdle"
          /\ xthrown' = {}
          /\ xres' = "running"
          /\ waitRes' = "running"
          /\ UNCHANGED <<i, errors, fatal>>
    /\ UNCHANGED <<args, linkVars, files, expandVars, pollVars, pageVars, debugFiles>>

Next ==
    \/ Navigate
    \/ LoginWait
    \/ DebugDump
    \/ ExtractRoot
    \/ WaitIdle
    \/ Poll(CrawlLens)
    \/ PollDeadline
    \/ Title
    \/ Heading
    \/ Content(CrawlTrees, ConverterOutputs)
    \/ Persist
    \/ ExpandPass(CrawlSidebars)
    \/ DiscoverLinks(CrawlDoms)
    \/ FilterSelf
    \/ Goto

Spec == Init /\ [][Next]_vars

(***************************************************************************)
(* The link discoverer and the self-exclusion on their own: main() is at   *)
(* line 291, the start page is written, and the page shows any anchors.    *)
(***************************************************************************)
InitLinks ==
    /\ args \in [url : LinkStartUrls, no_crawl : {FALSE}, debug : {FALSE}]
    /\ pc = "DiscoverLinks"
    /\ i = 0
    /\ url = args.url
    /\ dom = <<>>
    /\ found = <<>>
    /\ links = <<>>
    /\ files = {[index |-> 0, name |-> <<0, Untitled>>, src |-> args.url,
                 title |-> <<>>, body |-> <<>>]}
    /\ errors = {}
    /\ attempted = <<>>
    /\ passes = 0
    /\ toggles = <<>>
    /\ clicks = <<>>
    /\ ndiscover = 0
    /\ prev_len = 0
    /\ stable_count = 0
    /\ elapsed = 0
    /\ observed = <<>>
    /\ docTitle = <<>>
    /\ cands = <<>>
    /\ title = <<>>
    /\ tree = <<>>
    /\ content_html = NoHtml
    /\ markdown = <<>>
    /\ content = <<>>
    /\ xthrown = {}
    /\ xres = "returned"
    /\ waitRes = "stable"
    /\ debugFiles = {}
    /\ fatal = "none"

NextLinks ==
    \/ DiscoverLinks(AllDoms)
    \/ FilterSelf

SpecLinks == InitLinks /\ [][NextLinks]_vars

(***************************************************************************)
(* slugify on its own: main() is at line 276 with the start page extracted *)
(* and any title.                                                          *)
(***************************************************************************)
SlugChars == {"a", "e_acute", " ", "-", "!"}
SlugRunLens == {1, MaxSlugLen \div 2, MaxSlugLen + 1}
SlugRuns == [ch : SlugChars, n : SlugRunLens]
SlugInputs == UNION {[1..n -> SlugRuns] : n \in 0..MaxSlugRuns}

InitSlug ==
    /\ args \in [url : {WikiUrl("h1", <<"a">>)}, no_crawl : BOOLEAN, debug : {FALSE}]
    /\ pc = "Persist"
    /\ i = 0
    /\ url = args.url
    /\ dom = <<>>
    /\ found = <<>>
    /\ links = <<>>
    /\ files = {}
    /\ errors = {}
    /\ attempted = <<>>
    /\ passes = 0
    /\ toggles = <<>>
    /\ clicks = <<>>
    /\ ndiscover = 0
    /\ prev_len = 0
    /\ stable_count = 0
    /\ elapsed = 0
    /\ observed = <<>>
    /\ title \in SlugInputs
    /\ docTitle = title
    /\ cands = <<NoEl, NoEl, NoEl>>
    /\ tree \in CrawlTrees
    /\ content_html = Locate(tree)
    /\ markdown \in ConverterOutputs
    /\ content = Collapse(markdown)
    /\ xthrown = {}
    /\ xres = "returned"
    /\ waitRes = "stable"
    /\ debugFiles = {}
    /\ fatal = "none"

NextSlug == Persist

SpecSlug == InitSlug /\ [][NextSlug]_vars

(***************************************************************************)
(* The content locator and the blank-line collapsing on their own:         *)
(* extract_page_content is at line 105 on the start page.                  *)
(***************************************************************************)
InitContent ==
    /\ args \in [url : {WikiUrl("h1", <<"a">>)}, no_crawl : {FALSE}, debug : {FALSE}]
    /\ pc = "Content"
    /\ i = 0
    /\ url = args.url
    /\ dom = <<>>
    /\ found = <<>>
    /\ links = <<>>
    /\ files = {}
    /\ errors = {}
    /\ attempted = <<>>
    /\ passes = 0
    /\ toggles = <<>>
    /\ clicks = <<>>
    /\ ndiscover = 0
    /\ prev_len = 0
    /\ stable_count = 0
    /\ elapsed = 0
    /\ observed = <<>>
    /\ docTitle \in DocTitles
    /\ cands = <<NoEl, NoEl, NoEl>>
    /\ title = docTitle
    /\ tree = <<>>
    /\ content_html = NoHtml
    /\ markdown = <<>>
    /\ content = <<>>
    /\ xthrown = {}
    /\ xres = "running"
    /\ waitRes = "stable"
    /\ debugFiles = {}
    /\ fatal = "none"

NextLocate == Content(AllTrees, ConverterOutputs)

SpecLocate == InitContent /\ [][NextLocate]_vars

NextCollapse == Content(CrawlTrees, Markdowns)

SpecCollapse == InitContent /\ [][NextCollapse]_vars

(***************************************************************************)
(* expand_sidebar_tree on its own: main() is at line 287 with the start    *)
(* page written, on a page with any sidebar.                               *)
(***************************************************************************)
InitExpand ==
    /\ args \in [url : {WikiUrl("h1", <<"a">>)}, no_crawl : {FALSE}, debug : {FALSE}]
    /\ pc = "ExpandTree"
    /\ i = 0
    /\ url = args.url
    /\ dom = <<>>
    /\ found = <<>>
    /\ links = <<>>
    /\ files = {[index |-> 0, name |-> <<0, Untitled>>, src |-> args.url,
                 title |-> <<>>, body |-> <<>>]}
    /\ errors = {}
    /\ attempted = <<>>
    /\ passes = 0
    /\ toggles = <<>>
    /\ clicks = <<>>
    /\ ndiscover = 0
    /\ prev_len = 0
    /\ stable_count = 0
    /\ elapsed = 0
    /\ observed = <<>>
    /\ docTitle = <<>>
    /\ cands = <<>>
    /\ title = <<>>
    /\ tree = <<>>
    /\ content_html = NoHtml
    /\ markdown = <<>>
    /\ content = <<>>
    /\ xthrown = {}
    /\ xres = "returned"
    /\ waitRes = "stable"
    /\ debugFiles = {}
    /\ fatal = "none"

NextExpand == ExpandPass(AllSidebars)

SpecExpand == InitExpand /\ [][NextExpand]_vars

(***************************************************************************)
(* wait_for_content on its own: extract_page_content is at line 82 on the  *)
(* start page, whose text may change between polls.                        *)
(***************************************************************************)
InitWait ==
    /\ args \in [url : {WikiUrl("h1", <<"a">>)}, no_crawl : {FALSE}, debug : {FALSE}]
    /\ pc = "WaitIdle"
    /\ i = 0
    /\ url = args.url
    /\ dom = <<>>
    /\ found = <<>>
    /\ links = <<>>
    /\ files = {}
    /\ errors = {}
    /\ attempted = <<>>
    /\ passes = 0
    /\ toggles = <<>>
    /\ clicks = <<>>
    /\ ndiscover = 0
    /\ prev_len = 0
    /\ stable_count = 0
    /\ elapsed = 0
    /\ observed = <<>>
    /\ docTitle = <<>>
    /\ cands = <<>>
    /\ title = <<>>
    /\ tree = <<>>
    /\ content_html = NoHtml
    /\ markdown = <<>>
    /\ content = <<>>
    /\ xthrown = {}
    /\ xres = "running"
    /\ waitRes = "running"
    /\ debugFiles = {}
    /\ fatal = "none"

NextWait ==
    \/ WaitIdle
    \/ Poll(Lens)
    \/ PollDeadline

SpecWait == InitWait /\ [][NextWait]_vars

(***************************************************************************)
(* Properties.                                                             *)
(***************************************************************************)
FileIndices == {f.index : f \in files}
Attempted == {attempted[n] : n \in 1..Len(attempted)}
Terminated == pc \in {"Done", "Exit", "Crashed"}

\* C1: a link whose navigation or extraction fails gets no file under its
\* index, the failure does not end the run, and every later link is still
\* attempted and, when it succeeds, written under its own index.
C1_FailedLinkIsSkipped ==
    /\ pc = "Crashed" => i = 0
    /\ \A k \in errors :
        /\ k \in 1..Len(links)
        /\ k \notin FileIndices
        /\ pc = "Done" =>
              \A j \in (k + 1)..Len(links) :
                  /\ j \in Attempted
                  /\ j \notin errors =>
                        \E f \in files : f.index = j /\ f.src = links[j].url
    /\ \A k \in Attempted : k < i => (k \in errors) # (k \in FileIndices)

C1_Witness ==
    /\ pc = "Done"
    /\ Len(links) = 3
    /\ errors = {1}
    /\ FileIndices = {0, 2, 3}

\* the states of the driver's state machine, in their order
Rank ==
    CASE pc = "Start" -> 0
      [] pc = "LoginWait" -> 1
      [] pc \in {"Ready", "WaitIdle", "Poll", "Title", "Heading", "Content",
                 "Persist"} /\ i = 0 -> 2
      [] pc = "ExpandTree" -> 3
      [] pc \in {"DiscoverLinks", "FilterSelf"} -> 4
      [] pc \in {"Goto", "WaitIdle", "Poll", "Title", "Heading", "Content",
                 "Persist"} /\ i >= 1 -> 5
      [] pc = "Done" -> 6
      [] OTHER -> 7

C2_State ==
    /\ ndiscover <= 1
    /\ pc = "DiscoverLinks" => url = args.url /\ i = 0
    /\ attempted = [n \in 1..Len(attempted) |-> n]
    /\ Len(attempted) <= Len(links)
    /\ Rank = 5 => i \in 1..Len(links) /\ Len(attempted) \in {i - 1, i}
    /\ pc = "Done" => ndiscover = 1 /\ Len(attempted) = Len(links) /\ i = Len(links) + 1
    /\ Rank \in 5..6 => \A k \in 1..Len(links) : \E n \in 1..Len(found) : found[n] = links[k]
    /\ ~Terminated => ENABLED Next

C2_Step ==
    /\ \/ Rank' \in {Rank, Rank + 1}
       \/ Rank = 0 /\ Rank' = 2
       \/ Rank = 4 /\ Rank' = 6 /\ links' = <<>>
       \/ Rank < 5 /\ Rank' = 7
    /\ Rank = 5 /\ Rank' = 5 => i' \in {i, i + 1}
    /\ Rank = 5 /\ Rank' = 6 => i = Len(links) /\ Len(attempted') = i
    /\ Rank >= 5 => links' = links /\ found' = found /\ ndiscover' = ndiscover

\* C2: a full crawl run goes Start, (LoginWait), ExtractRoot, ExpandTree,
\* DiscoverLinks, VisitLink[1..N], Done with no backward step; links are
\* discovered once, from the start page, the list is fixed from then on, each
\* link is attempted once in discovery order, and Done follows the last
\* attempt whether the attempts succeeded or failed.
C2_StateMachineOrder == []C2_State /\ [][C2_Step]_vars

C2_Witness ==
    /\ pc = "Done"
    /\ attempted = <<1, 2, 3>>
    /\ errors = {3}
    /\ FileIndices = {0, 1, 2}

\* C3: index 0 is the start page's only, index k is the k-th link of the
\* self-excluded discovery order, a failed link leaves its index unused, and
\* no two pages are written under one index.
C3_IndexIsPosition ==
    /\ \A f \in files :
        \/ f.index = 0 /\ f.src = args.url
        \/ f.index \in 1..Len(links) /\ f.src = links[f.index].url
    /\ \A f, g \in files : f.index = g.index => f = g
    /\ \A k \in errors : k \notin FileIndices

C3_Witness ==
    /\ errors = {1, 2}
    /\ \E f \in files : f.index = 3 /\ f.src = links[3].url
    /\ Cardinality(files) = 2

RootFatalSites == {"goto", "wait_for_url", "login_networkidle", "networkidle",
                   "poll", "title", "content"}

\* C4: an error in the initial navigation, the login wait, the stabilization
\* or the content evaluation of the start page is not caught and ends the
\* run: no tree expansion, no link discovery, no link visit, no file with an
\* index >= 1.
C4_RootErrorIsFatal ==
    /\ fatal \in RootFatalSites =>
          /\ pc = "Crashed"
          /\ i = 0
          /\ passes = 0
          /\ ndiscover = 0
          /\ found = <<>> /\ links = <<>>
          /\ attempted = <<>>
          /\ files = {}
    /\ i = 0 /\ xres = "raised" => pc = "Crashed" /\ fatal \in xthrown
    /\ pc = "Crashed" => fatal # "none"

C4_Witness ==
    /\ pc = "Crashed"
    /\ fatal = "content"
    /\ "content" \in xthrown
    /\ files = {}

Propagating == {"networkidle", "poll", "title", "content"}

\* C5 as given: every exception thrown by an evaluation call inside extract
\* (stabilization poll, title resolution, content location) is propagated.
C5_EveryThrowPropagates ==
    /\ xres = "returned" => xthrown = {}
    /\ xres = "raised" => xthrown # {}

\* C5 as amended: extract fails exactly when the network-idle wait, a
\* stabilization poll, page.title() or the content evaluation throws; an
\* exception of the heading evaluation is suppressed and the document title
\* is kept.
C5_ThrowPropagatesButHeading ==
    /\ xres \in {"running", "returned"} => xthrown \subseteq {"heading"}
    /\ xres = "raised" => xthrown \cap Propagating # {}
    /\ xres = "none" => xthrown = {}

C5_Witness ==
    /\ xres = "returned"
    /\ xthrown = {"heading"}
    /\ pc = "Persist"
    /\ title = docTitle

\* C6 as given: wait_for_content never raises a timeout error to its caller,
\* neither when the network-idle wait times out nor when the polling deadline
\* elapses.
C6_WaitNeverRaisesOnTimeout == waitRes # "timeout_error"

\* an anchor the discoverer accepts
Qualifies(a) ==
    /\ Contains(a.href, WikiMarker)
    /\ Host(a.href) = Host(args.url)
    /\ TextLen(Trim(a.text)) \in 1..(MaxTextLen - 1)

QualifyingAt(u) == {k \in 1..Len(dom) : Qualifies(dom[k]) /\ CleanUrl(dom[k].href) = u}
FirstQualifying(u) == CHOOSE k \in QualifyingAt(u) : \A j \in QualifyingAt(u) : k <= j

\* C7: the records have pairwise distinct normalized URLs, are in the order
\* of their first qualifying anchor, and carry that anchor's title; a later
\* anchor with the same normalized URL adds nothing and replaces nothing.
C7_FirstSeenWins ==
    ndiscover >= 1 =>
        /\ \A m, n \in 1..Len(found) : m # n => found[m].url # found[n].url
        /\ {found[m].url : m \in 1..Len(found)}
              = {CleanUrl(dom[k].href) : k \in {j \in 1..Len(dom) : Qualifies(dom[j])}}
        /\ \A m \in 1..Len(found) :
              /\ QualifyingAt(found[m].url) # {}
              /\ found[m].title = Trim(dom[FirstQualifying(found[m].url)].text)
        /\ \A m, n \in 1..Len(found) :
              m < n => FirstQualifying(found[m].url) < FirstQualifying(found[n].url)

C7_Witness ==
    /\ ndiscover = 1
    /\ Len(dom) = 3
    /\ ~Qualifies(dom[1]) /\ Qualifies(dom[2]) /\ Qualifies(dom[3])
    /\ CleanUrl(dom[1].href) = CleanUrl(dom[3].href)
    /\ CleanUrl(dom[2].href) = CleanUrl(dom[3].href)
    /\ Trim(dom[2].text) # Trim(dom[3].text)
    /\ Len(found) = 1
    /\ found[1].title = Trim(dom[2].text)

\* a URL without its query string and fragment, read off the whole string
BeforeQueryOrFragment(u) == SubSeq(u, 1, FirstIn(u, {"?", "#"}) - 1)

\* C8: normalization is idempotent, and two anchors whose URLs differ only
\* in query string or fragment normalize to the same value and, when the
\* discoverer accepts one of them, yield exactly one record.
C8_NormalizationIdempotent ==
    ndiscover >= 1 =>
        /\ \A k \in 1..Len(dom) :
              CleanUrl(CleanUrl(dom[k].href)) = CleanUrl(dom[k].href)
        /\ \A m \in 1..Len(found) : CleanUrl(found[m].url) = found[m].url
        /\ \A j, k \in 1..Len(dom) :
              BeforeQueryOrFragment(dom[j].href) = BeforeQueryOrFragment(dom[k].href) =>
                  /\ CleanUrl(dom[j].href) = CleanUrl(dom[k].href)
                  /\ Qualifies(dom[j]) \/ Qualifies(dom[k]) =>
                        Cardinality({m \in 1..Len(found) :
                                        found[m].url = CleanUrl(dom[j].href)}) = 1

C8_Witness ==
    /\ ndiscover = 1
    /\ Len(dom) = 2
    /\ dom[1].href # dom[2].href
    /\ BeforeQueryOrFragment(dom[1].href) = BeforeQueryOrFragment(dom[2].href)
    /\ Qualifies(dom[1]) /\ Qualifies(dom[2])
    /\ Len(found) = 1

\* C9 as given: the links visited are the discovered links minus the start
\* page's own normalized URL (a trailing slash apart): the start page is not
\* visited again and no link to another page is dropped.
C9_OnlyStartPageExcluded ==
    pc \in {"Goto", "Done"} =>
        LET other(l) == RStripSlash(l.url) # RStripSlash(CleanUrl(args.url))
        IN  links = SelectSeq(found, other)

\* C10 as given: every persisted page has a non-empty title.
C10_TitleNeverEmpty == \A f \in files : f.title # <<>>

HeadingsOk == {k \in 1..Len(cands) : HeadingOk(cands[k])}

C10_Step ==
    \A f \in files' \ files :
        /\ f.title = IF HeadingsOk # {}
                     THEN Trim(cands[CHOOSE k \in HeadingsOk :
                                        \A j \in HeadingsOk : k <= j].text)
                     ELSE docTitle
        /\ f.title = <<>> <=> (HeadingsOk = {} /\ docTitle = <<>>)
        /\ f.name[2] # <<>>
        /\ f.title = <<>> => f.name[2] = Untitled

\* C10 as amended: the title written in the header of a file is the first
\* qualifying heading candidate, else the raw document title, with no
\* placeholder after that: it is empty when no heading qualifies and the
\* document title is empty.  The placeholder is that of the file name, whose
\* slug is non-empty for every page.
C10_TitleIsHeadingElseDocTitle == [][C10_Step]_vars

C10_Witness ==
    \E f, g \in files :
        /\ f.title = <<>> /\ f.name = <<f.index, Untitled>>
        /\ g.title = <<Run("H", 1)>> /\ g.name = <<g.index, g.title>>


AsciiSlugChars == {"a", "b", "D", "H", "x", "y", "7", "_", "-",
                   "u", "n", "t", "i", "l", "e", "d"}
NonAsciiWordChars == {"e_acute", "zh"}
CharsOf(t) == {t[k].ch : k \in 1..Len(t)}
\* nothing of the title is left once it is stripped of its outer whitespace
\* and of the characters that are no letter, digit, underscore, space or hyphen
NothingLeft(t) == CharsOf(Trim(t)) \subseteq {"!"}

\* C11: for every title, the empty one included, slugify returns a non-empty
\* slug of at most 120 characters, made of ASCII letters, digits, underscore
\* and hyphen only, and it is 'untitled' whenever stripping leaves nothing.
C11_SlugIsAsciiSafe ==
    \A f \in files :
        LET s == f.name[2]
        IN  /\ TextLen(s) >= 1
            /\ \A k \in 1..Len(s) : s[k].n >= 1
            /\ TextLen(s) <= MaxSlugLen
            /\ CharsOf(s) \subseteq AsciiSlugChars
            /\ NothingLeft(f.title) => s = Untitled

\* C11 as the code has it: the slug is non-empty, at most 120 characters
\* long, made of word characters in the Unicode sense of a Python 3 str
\* pattern (letters of any script, digits, underscore) and hyphens, and it is
\* 'untitled' whenever stripping leaves nothing.
C11_SlugIsWordSafe ==
    \A f \in files :
        LET s == f.name[2]
        IN  /\ TextLen(s) >= 1
            /\ \A k \in 1..Len(s) : s[k].n >= 1
            /\ TextLen(s) <= MaxSlugLen
            /\ CharsOf(s) \subseteq AsciiSlugChars \cup NonAsciiWordChars
            /\ NothingLeft(f.title) => s = Untitled

\* a title longer than 120 characters with punctuation and a non-ASCII
\* letter was cut to a slug of 120 characters that keeps the letter
C11_Witness ==
    \E f \in files :
        /\ TextLen(f.title) > MaxSlugLen
        /\ "!" \in CharsOf(f.title)
        /\ "e_acute" \in CharsOf(f.name[2])
        /\ TextLen(f.name[2]) = MaxSlugLen

\* the content evaluation has returned a fragment of the page in tree
Located == content_html.phase # "none"
\* a main, article or role=main element
IsSemantic(n) == n.tag \in {"main", "article"} \/ n.role = "main"
SemanticSelectors ==
    {s \in 1..Len(KnownSelectors) :
        KnownSelectors[s] \in {[by |-> "tag", v |-> "article"],
                               [by |-> "tag", v |-> "main"],
                               [by |-> "role", v |-> "main"]}}
\* the first element in document order that selector s matches has more
\* than 50 characters of text
FirstMatchIsLong(s) ==
    \E k \in 1..Len(tree) :
        /\ Matches(tree[k], KnownSelectors[s])
        /\ \A j \in 1..(k - 1) : ~Matches(tree[j], KnownSelectors[s])
        /\ InnerText(tree, k) > MinKnownText

\* C12: on a page that holds a main, article or role=main element with more
\* than 50 characters of text, the locator returns the inner HTML of such an
\* element from the known-selector phase and never takes the fallback path,
\* whatever else the page holds.
C12_SemanticElementReturned ==
    Located /\ (\E k \in 1..Len(tree) : IsSemantic(tree[k]) /\ InnerText(tree, k) > MinKnownText)
    => /\ content_html.phase = "known"
       /\ IsSemantic(tree[content_html.el])
       /\ InnerText(tree, content_html.el) > MinKnownText
       /\ content_html.nodes = Descendants(tree, content_html.el)

\* C12 as the code has it: when the first article, the first main or the
\* first role=main element of the page in document order has more than 50
\* characters of text, the locator returns from the known-selector phase and
\* never takes the fallback path; what it returns is the whole inner HTML of
\* the first match of the first selector in priority order whose first match
\* has more than 50 characters.
C12_FirstLongKnownReturned ==
    Located /\ (\E s \in SemanticSelectors : FirstMatchIsLong(s))
    => LET smin == CHOOSE s \in 1..Len(KnownSelectors) :
                      /\ FirstMatchIsLong(s)
                      /\ \A r \in 1..(s - 1) : ~FirstMatchIsLong(r)
       IN  /\ content_html.phase = "known"
           /\ Matches(tree[content_html.el], KnownSelectors[smin])
           /\ \A j \in 1..(content_html.el - 1) : ~Matches(tree[j], KnownSelectors[smin])
           /\ content_html.nodes = Descendants(tree, content_html.el)

\* a page with a short article before a long main element and a menu in it:
\* the main element is returned whole
C12_Witness ==
    /\ Located
    /\ \E a, m, c \in 1..Len(tree) :
        /\ a < m
        /\ tree[a].tag = "article" /\ InnerText(tree, a) <= MinKnownText
        /\ tree[m].tag = "main" /\ InnerText(tree, m) > MinKnownText
        /\ tree[c].tag = "nav" /\ tree[c].parent = m
        /\ content_html = [phase |-> "known", el |-> m, nodes |-> {c}]

\* no element of the page matches a known selector
NoKnownContainer ==
    \A k \in 1..Len(tree), s \in 1..Len(KnownSelectors) : ~Matches(tree[k], KnownSelectors[s])
\* the fragment holds an element or text
NonEmptyHtml == content_html.nodes # {} \/ tree[content_html.el].text > 0

\* C13: on a page with no known content container and a non-empty body the
\* locator returns a non-empty fragment: the best candidate after stripping,
\* or the whole body when there is no candidate.
C13_FallbackNonEmpty ==
    Located /\ NoKnownContainer /\ Len(tree) > 1
    => /\ NonEmptyHtml
       /\ content_html.phase \in {"best", "body"}
       /\ content_html.phase = "body" =>
             content_html = [phase |-> "body", el |-> 1, nodes |-> 2..Len(tree)]

\* the text t read as characters has k newlines in a row somewhere
RECURSIVE NewlineRun(_, _, _)
NewlineRun(t, k, sofar) ==
    IF sofar >= k THEN TRUE
    ELSE IF t = <<>> THEN FALSE
    ELSE IF Head(t).ch = "\n" THEN NewlineRun(Tail(t), k, sofar + Head(t).n)
    ELSE IF Head(t).n = 0 THEN NewlineRun(Tail(t), k, sofar)
    ELSE NewlineRun(Tail(t), k, 0)

\* C14: the returned body never holds three or more newlines in a row, and
\* collapsing it a second time leaves it unchanged.
C14_CollapseIdempotent ==
    pc = "Persist" =>
        /\ ~NewlineRun(content, 3, 0)
        /\ Collapse(content) = content

\* md() returned a text with five newlines in a row, over two runs, and the
\* returned body has two in their place
C14_Witness ==
    /\ pc = "Persist"
    /\ NewlineRun(markdown, 5, 0)
    /\ Len(markdown) = 3
    /\ markdown[1].ch = "\n" /\ markdown[2].ch = "\n" /\ markdown[3].ch = "t"
    /\ content = <<Run("\n", 2), markdown[3]>>

\* C19: in the fallback phase no element of the returned fragment matches the
\* exclusion predicate of the walk (an excluded tag, or a class that matches
\* an excluded pattern whatever its letter case).
C19_FragmentHasNoExcluded ==
    content_html.phase = "best" =>
        \A j \in content_html.nodes : ~ShouldExclude(tree[j])

\* poll k of obs read a length above 100 that the poll before it read too
StablePoll(obs, k) == k >= 2 /\ obs[k] > MinStableLen /\ obs[k] = obs[k - 1]
\* the last three polls of obs were stable polls
ThreeStable(obs) ==
    /\ Len(obs) >= StableNeeded + 1
    /\ \A k \in (Len(obs) - StableNeeded + 1)..Len(obs) : StablePoll(obs, k)
\* this step is a poll that read a length and went on, or returned
PollWentOn == pc = "Poll" /\ pc' = "Poll" /\ elapsed' # elapsed
PollReturned == pc = "Poll" /\ pc' = "Title" /\ waitRes' = "stable"

C16_Step ==
    /\ PollReturned => elapsed < Deadline /\ ThreeStable(observed')
    /\ PollWentOn =>
          /\ ~ThreeStable(observed')
          /\ stable_count' = IF StablePoll(observed', Len(observed'))
                             THEN stable_count + 1 ELSE 0
    /\ pc = "Poll" /\ waitRes' = "deadline" => elapsed >= Deadline

\* C16: the poll loop returns before the deadline exactly when three polls
\* in a row each read a length above 100 equal to the length of the poll
\* before; a poll whose length changed or is at most 100 sets the counter to
\* zero, so the loop never returns early on a page that still changes or
\* shows at most 100 characters.
C16_ReturnsOnThreeStablePolls == [][C16_Step]_vars

\* the length changed from 101 to 102 and then four polls read 102: the loop
\* returned after the fourth
C16_Witness ==
    /\ pc = "Title"
    /\ waitRes = "stable"
    /\ observed = <<MinStableLen + 1, MinStableLen + 2, MinStableLen + 2,
                    MinStableLen + 2, MinStableLen + 2>>

\* expand_sidebar_tree has returned
Expanded == pc = "DiscoverLinks" /\ passes > 0
\* three toggles that pass the size and position filter, each nested in the
\* one before it
NestedChain ==
    /\ Len(toggles) = 3
    /\ \A k \in 1..3 : toggles[k].parent = k - 1 /\ toggles[k].rect.left < MaxToggleLeft

\* C15: on a sidebar of three nested collapsed toggles, each revealing the
\* next, the loop runs exactly three passes that click something and ends on
\* the fourth, which clicks nothing; the three toggles are expanded then.
C15_ThreePassesThenStop ==
    Expanded /\ NestedChain
    => /\ passes = 4
       /\ \A n \in 1..3 : clicks[n] # <<>>
       /\ clicks[4] = <<>>
       /\ \A k \in 1..3 : toggles[k].expanded

C17_Step ==
    pc = "ExpandTree" /\ pc' # "Crashed"
    => /\ passes' = passes + 1
       /\ passes' <= MaxPasses
       /\ Len(clicks') = passes'
       /\ pc' \in {"ExpandTree", "DiscoverLinks"}
       /\ pc' = "ExpandTree" <=> clicks'[passes'] # <<>> /\ passes' < MaxPasses

\* C17: expand_sidebar_tree always ends: every step of the loop is one more
\* pass, the loop stops after the first pass that clicks nothing, and it
\* runs at most 15 passes otherwise.
C17_ExpandTerminates == [](pc = "ExpandTree" => passes < MaxPasses) /\ [][C17_Step]_vars

\* fifteen passes ran and the last one still clicked a toggle
C17_Witness ==
    /\ Expanded
    /\ passes = MaxPasses
    /\ clicks[MaxPasses] # <<>>

\* how often element k is in the click log of one pass
Count(log, k) == Cardinality({n \in 1..Len(log) : log[n] = k})
\* the sidebar as a pass finds it: collapsed before the first pass
Before ==
    IF passes = 0 THEN [k \in 1..Len(toggles') |-> [toggles'[k] EXCEPT !.expanded = FALSE]]
    ELSE toggles

C18_Step ==
    pc = "ExpandTree" /\ passes' = passes + 1
    => \A k \in 1..Len(Before) :
          /\ Count(clicks'[passes'], k) <= 1
          /\ (RectOk(Before, k) /\ \E s \in 1..Len(ToggleSelectors) :
                                      MatchesToggle(Before[k], ToggleSelectors[s]))
             => Count(clicks'[passes'], k) = 1

\* C18: in each pass every element that matches a toggle signal and the size
\* and position filter is clicked exactly once and counted exactly once,
\* also when it matches several signals; no pass clicks a toggle twice.
C18_EachToggleClickedOnce == [][C18_Step]_vars

C20_Step ==
    /\ pc = "Start" /\ pc' # "Crashed" =>
          IF url'[2] = "accounts" THEN pc' = "LoginWait" ELSE pc' = "Ready"
    /\ pc = "LoginWait" =>
          /\ pc' \in {"LoginWait", "Ready", "Crashed"}
          /\ pc' = "Ready" => MatchesWiki(url') /\ url'[2] # "accounts"
          /\ xres' = "none" /\ files' = {}
    /\ xres = "none" /\ xres' # "none" => MatchesWiki(url) /\ url[2] # "accounts"

\* C20: when the first navigation lands on the login page the driver waits in
\* LoginWait, and the extraction of the start page starts only once the page
\* URL is a wiki URL again; when the wait times out the run ends with no
\* extraction and no file, so the login page is never written as file 0.
C20_LoginPageNeverPersisted ==
    /\ [][C20_Step]_vars
    /\ [](fatal = "wait_for_url" => pc = "Crashed" /\ xres = "none" /\ files = {})
    /\ [](\A f \in files : f.src[2] # "accounts")

\* the wait for the wiki URL timed out on the login page: the run is over
\* and nothing was extracted or written
C20_Witness ==
    /\ fatal = "wait_for_url"
    /\ url = LoginUrl
    /\ pc = "Crashed"
    /\ files = {}
====
